---- MODULE Spec2Model ----
(***************************************************************************)
(* Connection tracking table of the `path` crate (src/src/lib.rs):         *)
(* Identifier canonicalisation, the LinkedHashMap used as an LRU cache,    *)
(* and Path::track with its timeout, capacity and overflow handling.       *)
(*                                                                         *)
(* Option<T> is modelled as a sequence of length <= 1: None is << >> and   *)
(* Some(x) is <<x>>.  A LinkedHashMap is modelled as the sequence of its   *)
(* entries in iteration order: index 1 is the front (least recently used), *)
(* the last index is the back (most recently used).                        *)
(***************************************************************************)
EXTENDS Integers, Sequences, FiniteSets, TLC

VARIABLES
    hashmap,          \* Path.hashmap: Seq of [identifier, data]
    timeout,          \* Path.timeout, in nanoseconds (a signed Duration)
    max_connections,  \* Path.max_connections (0 == unlimited)
    clock,            \* the value precise_time_ns() returns when read
    last,             \* the most recent call on the table and what it returned
    touched,          \* history: identifiers in the table, by most recent touch
    ident             \* an Identifier::new call: its arguments and its result

vars == <<hashmap, timeout, max_connections, clock, last, touched, ident>>

(***************************************************************************)
(* Bounds of the model.                                                    *)
(***************************************************************************)
\* u64::MAX for the packet counter, scaled down so that the counter can
\* reach it: the counter is an unsigned integer in 0..CounterMax.
CounterMax == 3
\* Width in bits of the scaled-down u64 clock value; i64 is the same width.
TimeBits == 5
\* The clock stops at MaxClock (well below 2^(TimeBits-1)).
MaxClock == 2

None == << >>
Some(x) == <<x>>

(***************************************************************************)
(* Identifier::new                                                         *)
(***************************************************************************)
\* IpAddr is <<family, value>>: the derived order of the enum compares the
\* variant first (V4 < V6) and then the address value.
V4(a) == <<4, a>>
V6(a) == <<6, a>>
IpAddrs == {V4(0), V4(1), V6(0)}
Ports == {0, 1}
Keys == {6, 17}

IpGreater(a, b) == a[1] > b[1] \/ (a[1] = b[1] /\ a[2] > b[2])

\* a plausible slip: the ports are left out of the comparison
TupleGreaterByAddress(s, d) == IpGreater(s[1], d[1])

\* (IpAddr, u16) > (IpAddr, u16): lexicographic
TupleGreater(s, d) == IpGreater(s[1], d[1]) \/ (s[1] = d[1] /\ s[2] > d[2])

\* a plausible slip: the tuples are never swapped
IdentifierNewUnordered(source_ip, source_port, destination_ip, destination_port, key) ==
    [lower |-> [address |-> source_ip, port |-> source_port],
     greater |-> [address |-> destination_ip, port |-> destination_port],
     key |-> key]

IdentifierNew(source_ip, source_port, destination_ip, destination_port, key) ==
    LET source_tuple == <<source_ip, source_port>>
        destination_tuple == <<destination_ip, destination_port>>
        connection_tuple == IF TupleGreater(source_tuple, destination_tuple)
                            THEN <<destination_tuple, source_tuple>>
                            ELSE <<source_tuple, destination_tuple>>
    IN [lower |-> [address |-> connection_tuple[1][1], port |-> connection_tuple[1][2]],
        greater |-> [address |-> connection_tuple[2][1], port |-> connection_tuple[2][2]],
        key |-> key]

NewOf(a) == IdentifierNew(a[1], a[2], a[3], a[4], a[5])
Swapped(a) == <<a[3], a[4], a[1], a[2], a[5]>>

\* every argument list of Identifier::new within the bounds
AllArgs == IpAddrs \X Ports \X IpAddrs \X Ports \X Keys

\* the argument lists the callers of track use: a flow, and the same
\* endpoints under another key
TrackArgs == { <<V4(0), 1, V4(0), 0, 6>>,
               <<V4(0), 1, V4(0), 0, 17>> }

\* callers that see a flow in both directions and under another key
FlowArgs == { <<V4(0), 1, V4(0), 0, 6>>,
              <<V4(0), 0, V4(0), 1, 6>>,
              <<V4(0), 1, V4(0), 0, 17>> }

\* callers that follow three flows, each in one direction
LruArgs == { <<V4(0), 1, V4(0), 0, 6>>,
             <<V4(0), 1, V4(0), 0, 17>>,
             <<V6(0), 0, V4(1), 1, 6>> }

\* callers that follow four flows, the first of them a busy one
CrowdArgs == LruArgs \cup { <<V6(0), 1, V4(1), 0, 17>> }
BusyFlow == <<V4(0), 1, V4(0), 0, 6>>

\* the values the callers assign to Path.timeout and Path.max_connections
Timeouts == {0, 1}
Limits == {0, 1}
LruLimits == {1, 2}

(***************************************************************************)
(* Integer arithmetic of the clock and the packet counter                  *)
(***************************************************************************)
TimeMod == 2 ^ TimeBits

\* u64 subtraction as a release build computes it (wrapping)
WrappingSub(a, b) == (a - b) % TimeMod

\* `x as i64`: reinterpretation of the bits as two's complement
AsI64(x) == IF x >= TimeMod \div 2 THEN x - TimeMod ELSE x

\* a plausible slip: the addition wraps around
WrappingAdd1(x) == Some((x + 1) % (CounterMax + 1))

\* u64::checked_add(1)
CheckedAdd1(x) == IF x + 1 > CounterMax THEN None ELSE Some(x + 1)

(***************************************************************************)
(* LinkedHashMap                                                           *)
(***************************************************************************)
IndexOf(map, identifier) ==
    IF \E i \in 1..Len(map) : map[i].identifier = identifier
    THEN CHOOSE i \in 1..Len(map) : map[i].identifier = identifier
    ELSE 0

ContainsKey(map, identifier) == IndexOf(map, identifier) # 0

Get(map, identifier) == map[IndexOf(map, identifier)].data

Without(map, identifier) == SelectSeq(map, LAMBDA e : e.identifier # identifier)

\* a plausible slip: the entry is left in the map
RemoveNothing(map, identifier) == map

\* LinkedHashMap::remove
HashmapRemove(map, identifier) == Without(map, identifier)

\* a plain lookup, which leaves the order alone
GetNoRefresh(map, identifier) == map

\* a plausible slip: the entry found moves to the back without its payload
GetRefreshCleared(map, identifier) ==
    IF ContainsKey(map, identifier)
    THEN Append(Without(map, identifier),
                [identifier |-> identifier,
                 data |-> [Get(map, identifier) EXCEPT !.custom = None]])
    ELSE map

\* get_refresh: the entry found moves to the back
GetRefresh(map, identifier) ==
    IF ContainsKey(map, identifier)
    THEN Append(Without(map, identifier), map[IndexOf(map, identifier)])
    ELSE map

\* a plausible slip: the most recently used entry is popped
PopBack(map) ==
    IF map = << >>
    THEN [entry |-> None, map |-> map]
    ELSE [entry |-> Some(map[Len(map)]), map |-> SubSeq(map, 1, Len(map) - 1)]

\* a plausible slip: the new entry goes to the front
InsertFront(map, identifier, data) ==
    <<[identifier |-> identifier, data |-> data]>> \o Without(map, identifier)

\* a plausible slip: the insertion is lost
InsertNothing(map, identifier, data) == Without(map, identifier)

\* a plausible slip: the entry behind the popped one is dropped as well
PopFrontTwice(map) ==
    IF map = << >>
    THEN [entry |-> None, map |-> map]
    ELSE [entry |-> Some(Head(map)),
          map |-> IF Len(map) > 1 THEN Tail(Tail(map)) ELSE Tail(map)]

\* pop_front: the entry popped, if there is one, and the map left
PopFront(map) ==
    IF map = << >>
    THEN [entry |-> None, map |-> map]
    ELSE [entry |-> Some(Head(map)), map |-> Tail(map)]

\* a plausible slip: an insertion sweeps the entries older than the new one
InsertSweeping(map, identifier, data) ==
    Append(SelectSeq(Without(map, identifier),
                     LAMBDA e : e.data.timestamp >= data.timestamp),
           [identifier |-> identifier, data |-> data])

Insert(map, identifier, data) ==
    Append(Without(map, identifier), [identifier |-> identifier, data |-> data])

(***************************************************************************)
(* Data::new and Path::new                                                 *)
(***************************************************************************)
\* a plausible slip: the packet that creates the entry is not counted
DataNewUncounted(now) == [custom |-> None, packet_counter |-> 0, timestamp |-> now]

\* a plausible slip: the record is stamped with the zero of the clock
DataNewUnstamped(now) == [custom |-> None, packet_counter |-> 1, timestamp |-> 0]

DataNew(now) == [custom |-> None, packet_counter |-> 1, timestamp |-> now]

\* Duration::minutes(10), scaled: longer than any age the bounded clock shows
TenMinutes == MaxClock + 1

\* 1_000_000 connections, scaled: more than the identifiers the callers use
MillionConnections ==
    Cardinality({NewOf(a) : a \in TrackArgs \cup FlowArgs \cup LruArgs \cup CrowdArgs}) + 1

\* `last` while no call has been made.  `now` is the clock value a track
\* call read on entry, `state` is the ConnectionState of a
\* track call ("Overflow" for the bail! out of the lookup), `removed` the
\* identifier it evicted, `prior` the arguments and state of the call
\* before it when that was a track of the same identifier.
NoCall == [op |-> "none", args |-> None, identifier |-> None, state |-> "none",
           result |-> "none", connection |-> None, count_before |-> 0, now |-> 0,
           removed |-> None, prior |-> None]

NoIdent == [args |-> None, identifier |-> None]

PathNew ==
    /\ hashmap = << >>
    /\ timeout = TenMinutes
    /\ max_connections = MillionConnections

Init ==
    /\ PathNew
    /\ clock = 0
    /\ last = NoCall
    /\ touched = << >>
    /\ ident = NoIdent

(***************************************************************************)
(* History of touches: an identifier is touched when it is inserted and    *)
(* when a lookup of track finds it; it is forgotten when its entry leaves  *)
(* the table.  `touched` is kept apart from the order of `hashmap`.        *)
(***************************************************************************)
Forget(seq, identifier) == SelectSeq(seq, LAMBDA x : x # identifier)
Touch(seq, identifier) == Append(Forget(seq, identifier), identifier)

(***************************************************************************)
(* Path::track                                                             *)
(***************************************************************************)
\* a plausible slip: an age equal to the timeout already expires
InWindowStrict(now, data, limit) == AsI64(WrappingSub(now, data.timestamp)) < limit

\* Duration::nanoseconds((now - data.timestamp) as i64) <= self.timeout
InWindow(now, data, limit) == AsI64(WrappingSub(now, data.timestamp)) <= limit

\* a plausible slip: the test for the unlimited table is left out
IsFullAtZero(map, limit) == Len(map) >= limit

\* `now - data.timestamp` on u64 values with now < data.timestamp: a build
\* with overflow checks (the dev and test profiles) panics with "attempt to
\* subtract with overflow", a build without them wraps (WrappingSub)
SubOverflows(now, data) == now < data.timestamp

\* self.max_connections > 0 && self.hashmap.len() as u64 >= self.max_connections
IsFull(map, limit) == limit > 0 /\ Len(map) >= limit

\* Path::last_mut
LastMut(map) == IF map = << >> THEN None ELSE Some(map[Len(map)])

\* a plausible slip: a refresh counts the packet but keeps the old timestamp
TrackLookupStale(map, identifier, now, limit, overflow_checks) ==
    IF ~ContainsKey(map, identifier)
    THEN [state |-> "New", map |-> GetRefresh(map, identifier)]
    ELSE LET refreshed == GetRefresh(map, identifier)
             data == Get(map, identifier)
             at == IndexOf(refreshed, identifier)
         IN IF overflow_checks /\ SubOverflows(now, data)
            THEN [state |-> "Panic", map |-> refreshed]
            ELSE
            IF InWindow(now, data, limit)
            THEN IF CheckedAdd1(data.packet_counter) = None
                 THEN [state |-> "Overflow", map |-> refreshed]
                 ELSE [state |-> "Ok",
                       map |-> [refreshed EXCEPT
                                  ![at].data.packet_counter = CheckedAdd1(@)[1]]]
            ELSE [state |-> "Timeout", map |-> refreshed]

\* The match on get_refresh (lines 135-149): the connection state and the
\* table it leaves.  "Overflow" is the bail! out of the checked_add,
\* "Panic" the panic of the subtraction when `overflow_checks` are built in.
TrackLookup(map, identifier, now, limit, overflow_checks) ==
    IF ~ContainsKey(map, identifier)
    THEN [state |-> "New", map |-> GetRefresh(map, identifier)]
    ELSE LET refreshed == GetRefresh(map, identifier)
             data == Get(map, identifier)
             at == IndexOf(refreshed, identifier)
         IN IF overflow_checks /\ SubOverflows(now, data)
            THEN [state |-> "Panic", map |-> refreshed]
            ELSE
            IF InWindow(now, data, limit)
            THEN IF CheckedAdd1(data.packet_counter) = None
                 THEN [state |-> "Overflow", map |-> refreshed]
                 ELSE [state |-> "Ok",
                       map |-> [refreshed EXCEPT
                                  ![at].data.packet_counter = CheckedAdd1(@)[1],
                                  ![at].data.timestamp = now]]
            ELSE [state |-> "Timeout", map |-> refreshed]

\* The ConnectionState::New arm (lines 162-173): the table it leaves and
\* the identifier it evicted; `created` is the clock value Data::new reads.
\* `removed.unwrap()` panics, before the insertion, when pop_front found
\* nothing to pop.
TrackNew(map, identifier, limit, created) ==
    LET popped == IF IsFull(map, limit)
                  THEN PopFront(map)
                  ELSE [entry |-> None, map |-> map]
        panicked == IsFull(map, limit) /\ popped.entry = None
    IN [map |-> IF panicked
                THEN popped.map
                ELSE Insert(popped.map, identifier, DataNew(created)),
        removed |-> IF popped.entry = None
                    THEN None
                    ELSE Some(popped.entry[1].identifier),
        panicked |-> panicked]

\* The whole of track: the table it leaves and what it returns.  `now` is
\* the clock read on entry, `created` the later read of Data::new.  The
\* result is "panic" when one of the unwraps finds None.
TrackResult(map, identifier, now, created, window, limit, overflow_checks) ==
    LET looked == TrackLookup(map, identifier, now, window, overflow_checks)
    IN CASE looked.state = "Panic" ->
              [state |-> looked.state, map |-> looked.map, result |-> "panic",
               connection |-> None, removed |-> None]
         [] looked.state = "Overflow" ->
              [state |-> looked.state, map |-> looked.map,
               result |-> "PacketCounterOverflow",
               connection |-> None, removed |-> None]
         [] looked.state = "Timeout" ->
              [state |-> looked.state, map |-> HashmapRemove(looked.map, identifier),
               result |-> "Timeout", connection |-> None, removed |-> None]
         [] looked.state = "New" ->
              LET inserted == TrackNew(looked.map, identifier, limit, created)
                  connection == LastMut(inserted.map)
              IN [state |-> looked.state, map |-> inserted.map,
                  result |-> IF inserted.panicked \/ connection = None
                             THEN "panic" ELSE "Ok",
                  connection |-> IF inserted.panicked THEN None ELSE connection,
                  removed |-> inserted.removed]
         [] looked.state = "Ok" ->
              [state |-> looked.state, map |-> looked.map,
               result |-> IF LastMut(looked.map) = None THEN "panic" ELSE "Ok",
               connection |-> LastMut(looked.map), removed |-> None]

TouchedAfterTrack(seq, identifier, r) ==
    IF r.state = "Timeout"
    THEN Forget(seq, identifier)
    ELSE Touch(IF r.removed = None THEN seq ELSE Forget(seq, r.removed[1]), identifier)

\* the call before, when it was a track of the same identifier
PriorOf(call, identifier) ==
    IF call.op = "track" /\ call.identifier = Some(identifier)
    THEN Some([args |-> call.args[1], state |-> call.state])
    ELSE None

\* the builds whose track calls can differ in the present state: overflow
\* checks only matter to a call whose subtraction overflows
Builds(identifier) ==
    IF ContainsKey(hashmap, identifier) /\ SubOverflows(clock, Get(hashmap, identifier))
    THEN BOOLEAN
    ELSE {FALSE}

Track(a) ==
    \E created \in {clock, IF clock < MaxClock THEN clock + 1 ELSE clock},
       overflow_checks \in Builds(NewOf(a)) :
        LET identifier == NewOf(a)
            r == TrackResult(hashmap, identifier, clock, created, timeout,
                             max_connections, overflow_checks)
        IN /\ hashmap' = r.map
           /\ clock' = IF r.state = "New" /\ ContainsKey(r.map, identifier)
                       THEN created ELSE clock
           /\ last' = [op |-> "track", args |-> Some(a), identifier |-> Some(identifier),
                        state |-> r.state, result |-> r.result,
                        connection |-> r.connection, count_before |-> Len(hashmap),
                        now |-> clock,
                        removed |-> r.removed, prior |-> PriorOf(last, identifier)]
           /\ touched' = TouchedAfterTrack(touched, identifier, r)
           /\ UNCHANGED <<timeout, max_connections, ident>>

(***************************************************************************)
(* Path::remove and Path::flush                                            *)
(***************************************************************************)
\* a plausible slip: the least recently used entry is taken out instead
RemoveLeastRecent(identifier) ==
    /\ hashmap' = IF ContainsKey(hashmap, identifier) THEN Tail(hashmap) ELSE hashmap
    /\ last' = [NoCall EXCEPT !.op = "remove", !.count_before = Len(hashmap)]
    /\ touched' = Forget(touched, identifier)
    /\ UNCHANGED <<timeout, max_connections, clock, ident>>

Remove(identifier) ==
    /\ hashmap' = Without(hashmap, identifier)
    /\ last' = [NoCall EXCEPT !.op = "remove", !.count_before = Len(hashmap)]
    /\ touched' = Forget(touched, identifier)
    /\ UNCHANGED <<timeout, max_connections, clock, ident>>

\* a plausible slip: an age equal to the timeout is swept as well
ExpiredAtLimit(data, now, limit) == now - data.timestamp >= limit

Expired(data, now, limit) == now - data.timestamp > limit

\* `removed` holds the pairs flush returns, in the order of the scan
Flush ==
    /\ hashmap' = SelectSeq(hashmap, LAMBDA e : ~Expired(e.data, clock, timeout))
    /\ last' = [NoCall EXCEPT !.op = "flush", !.count_before = Len(hashmap),
                              !.removed = SelectSeq(hashmap,
                                  LAMBDA e : Expired(e.data, clock, timeout))]
    /\ touched' = SelectSeq(touched,
                     LAMBDA x : /\ ContainsKey(hashmap, x)
                                /\ ~Expired(Get(hashmap, x), clock, timeout))
    /\ UNCHANGED <<timeout, max_connections, clock, ident>>

(***************************************************************************)
(* The caller: assignments to the public fields, and the clock             *)
(***************************************************************************)
SetTimeout(t) ==
    /\ timeout' = t
    /\ last' = [NoCall EXCEPT !.op = "set_timeout"]
    /\ UNCHANGED <<hashmap, max_connections, clock, touched, ident>>

SetMaxConnections(m) ==
    /\ max_connections' = m
    /\ last' = [NoCall EXCEPT !.op = "set_max_connections"]
    /\ UNCHANGED <<hashmap, timeout, clock, touched, ident>>

\* path.last_mut().unwrap().data.custom = Some(c)
SetCustom(c) ==
    /\ LastMut(hashmap) # None
    /\ hashmap' = [hashmap EXCEPT ![Len(hashmap)].data.custom = Some(c)]
    /\ last' = [NoCall EXCEPT !.op = "set_custom"]
    /\ UNCHANGED <<timeout, max_connections, clock, touched, ident>>

\* time passes between two calls
Tick ==
    /\ clock < MaxClock
    /\ clock' = clock + 1
    /\ UNCHANGED <<hashmap, timeout, max_connections, last, touched, ident>>

\* a clock that is not monotonic reads an earlier value
ClockBack ==
    /\ clock > 0
    /\ clock' = clock - 1
    /\ UNCHANGED <<hashmap, timeout, max_connections, last, touched, ident>>

Next ==
    \/ \E a \in TrackArgs : Track(a)
    \/ \E a \in TrackArgs : Remove(NewOf(a))
    \/ Flush
    \/ \E t \in Timeouts : SetTimeout(t)
    \/ \E m \in Limits : SetMaxConnections(m)
    \/ Tick

Spec == Init /\ [][Next]_vars

\* callers that store custom data in the entries
NextCustom ==
    \/ \E a \in TrackArgs : Track(a)
    \/ \E a \in TrackArgs : Remove(NewOf(a))
    \/ Flush
    \/ SetTimeout(0)
    \/ SetMaxConnections(1)
    \/ SetCustom(1)
    \/ Tick

SpecCustom == Init /\ [][NextCustom]_vars

\* callers that see a flow in both directions
NextFlow ==
    \/ \E a \in FlowArgs : Track(a)
    \/ \E t \in Timeouts : SetTimeout(t)
    \/ \E m \in Limits : SetMaxConnections(m)
    \/ Tick

SpecFlow == Init /\ [][NextFlow]_vars

\* callers that follow three flows through a table they have limited
NextLru ==
    \/ \E a \in LruArgs : max_connections \in LruLimits /\ Track(a)
    \/ \E m \in LruLimits : SetMaxConnections(m)
    \/ SetTimeout(0)
    \/ Tick

SpecLru == Init /\ [][NextLru]_vars

\* callers that follow three flows through a table without a limit, see at
\* most two packets of each, and clean the table up themselves
SeenOnce(a) ==
    ContainsKey(hashmap, NewOf(a)) => Get(hashmap, NewOf(a)).packet_counter = 1

NextSweep ==
    \/ \E a \in LruArgs : SeenOnce(a) /\ Track(a)
    \/ \E a \in LruArgs : Remove(NewOf(a))
    \/ Flush
    \/ SetTimeout(0)
    \/ SetMaxConnections(0)
    \/ Tick

SpecSweep == Init /\ [][NextSweep]_vars

\* callers on a clock that may step back; a panic ends the run
Aborted == last.op = "track" /\ last.result = "panic"

NextClock ==
    \/ \E a \in TrackArgs : ~Aborted /\ Track(a)
    \/ ~Aborted /\ SetTimeout(0)
    \/ ~Aborted /\ Tick
    \/ ~Aborted /\ ClockBack

SpecClock == Init /\ [][NextClock]_vars

\* callers that follow four flows of which only the busy one sends more
\* than one packet, and that lower or lift the limit while the table is in
\* use
OneBusy(a) == a = BusyFlow \/ ~ContainsKey(hashmap, NewOf(a))

NextCrowd ==
    \/ \E a \in CrowdArgs : OneBusy(a) /\ Track(a)
    \/ \E m \in Limits : SetMaxConnections(m)
    \/ SetTimeout(0)
    \/ Tick

SpecCrowd == Init /\ [][NextCrowd]_vars

(***************************************************************************)
(* Identifier::new on its own: every argument list within the bounds       *)
(***************************************************************************)
InitIdent ==
    /\ PathNew
    /\ clock = 0
    /\ last = NoCall
    /\ touched = << >>
    /\ ident \in {[args |-> Some(a), identifier |-> None] : a \in AllArgs}

Construct ==
    /\ ident.identifier = None
    /\ ident' = [ident EXCEPT !.identifier = Some(NewOf(ident.args[1]))]
    /\ UNCHANGED <<hashmap, timeout, max_connections, clock, last, touched>>

SpecIdent == InitIdent /\ [][Construct]_vars

(***************************************************************************)
(* Properties                                                              *)
(***************************************************************************)
Count == Len(hashmap)

Tracked(result) == last.op = "track" /\ last.result = result

\* the entry of the identifier built from `a`, before the step
Present(a) == ContainsKey(hashmap, NewOf(a))
Record(a) == Get(hashmap, NewOf(a))

\* now - record.timestamp for a track call made in the current state
Age(a) == clock - Record(a).timestamp
WithinWindow(a) == Present(a) /\ Age(a) <= timeout

\* what the track call of the step returned
ReturnedOk == last'.op = "track" /\ last'.result = "Ok" /\ last'.connection # None
ReturnedData == last'.connection[1].data

\* C1: whenever track(X) returns Ok, by a refresh or by an insertion, the
\* view it returns names X and holds the record X has in the table, and X
\* is the entry at the most-recently-used position, the one last_mut reads.
C1_ReturnsTheEntryTracked ==
    Tracked("Ok") =>
        LET X == last.identifier[1]
        IN /\ last.connection # None
           /\ last.connection[1].identifier = X
           /\ ContainsKey(hashmap, X)
           /\ last.connection[1].data = Get(hashmap, X)
           /\ IndexOf(hashmap, X) = Len(hashmap)
           /\ hashmap[Len(hashmap)].identifier = X

\* a refresh of an entry while another one is in the table, after a call
\* that was not a track of the same identifier
C1_Witness ==
    /\ Tracked("Ok")
    /\ last.state = "Ok"
    /\ last.prior = None
    /\ Len(hashmap) = 2

\* C2: after every track, remove and flush, whatever the caller has
\* assigned to max_connections, max_connections > 0 implies
\* count() <= max_connections.
C2_CapacityBound ==
    (last.op \in {"track", "remove", "flush"} /\ max_connections > 0)
        => Count <= max_connections

\* C3: when track(X) is called for an absent X while max_connections > 0
\* and count() >= max_connections, the entry evicted is the one whose most
\* recent touch (insertion or lookup by track) is the oldest, whether it is
\* expired or fresh; every entry touched later, a refreshed one included,
\* stays in the table.
C3_EvictsLeastRecentlyTouched ==
    [][\A a \in LruArgs :
         (/\ Track(a)
          /\ ~ContainsKey(hashmap, NewOf(a))
          /\ max_connections > 0
          /\ Count >= max_connections)
         => /\ touched # << >>
            /\ last'.removed = Some(Head(touched))
            /\ ~ContainsKey(hashmap', Head(touched))
            /\ \A i \in 2..Len(touched) : ContainsKey(hashmap', touched[i])
            /\ ContainsKey(hashmap', NewOf(a))
            /\ Len(hashmap') = Len(hashmap)]_vars

\* an eviction from a table of two entries that keeps an entry which was
\* refreshed after its insertion
C3_Witness ==
    /\ Tracked("Ok")
    /\ last.removed # None
    /\ last.count_before = 2
    /\ Len(hashmap) = 2
    /\ hashmap[1].data.packet_counter >= 2

\* C4 (as amended): a track of an absent X returns packetCounter 1, and each
\* further track of X within the timeout window of the previous one returns
\* the counter raised by one, as long as the counter is below its maximum:
\* the Nth consecutive call returns N for N up to the maximum.  A record's
\* packetCounter is at least 1 and never decreases while it is in the table.
C4_CountsEachTrack ==
    [][/\ \A a \in TrackArgs :
            Track(a) =>
              /\ ~Present(a) => (ReturnedOk /\ ReturnedData.packet_counter = 1)
              /\ (WithinWindow(a) /\ Record(a).packet_counter < CounterMax)
                   => /\ ReturnedOk
                      /\ ReturnedData.packet_counter = Record(a).packet_counter + 1
                      /\ Get(hashmap', NewOf(a)).packet_counter
                            = Record(a).packet_counter + 1
       /\ \A i \in 1..Len(hashmap) : hashmap[i].data.packet_counter >= 1
       /\ \A i \in 1..Len(hashmap') : hashmap'[i].data.packet_counter >= 1
       /\ \A i \in 1..Len(hashmap) :
            ContainsKey(hashmap', hashmap[i].identifier)
              => Get(hashmap', hashmap[i].identifier).packet_counter
                   >= hashmap[i].data.packet_counter]_vars

\* the third call in a row for one identifier returns packetCounter 3
C4_Witness ==
    /\ Tracked("Ok")
    /\ last.state = "Ok"
    /\ last.prior # None
    /\ last.prior[1].state = "Ok"
    /\ last.connection[1].data.packet_counter = 3

\* C4 as stated: every track of a present X within the timeout window
\* succeeds and returns the counter raised by one, however many came before.
C4_EveryTrackInWindowSucceeds ==
    [][\A a \in TrackArgs :
         (Track(a) /\ WithinWindow(a))
            => (ReturnedOk /\ ReturnedData.packet_counter = Record(a).packet_counter + 1)]_vars

\* the preceding call was track(a), it returned Ok, and no call came since
JustTracked(a) == Tracked("Ok") /\ last.args = Some(a)

\* a and b name the same endpoints in the same order under different keys
DifferInKeyOnly(a, b) == SubSeq(a, 1, 4) = SubSeq(b, 1, 4) /\ a[5] # b[5]

\* C5 (as amended): for a flow absent from the table, track of
\* Identifier::new(A,p,B,q,k) followed within the timeout window by track
\* of Identifier::new(B,q,A,p,k) hits the entry the first call inserted: the
\* second call returns that identifier with packetCounter 2 and leaves
\* count() as the first call left it, which is the starting count plus one
\* unless the first call evicted an entry on capacity, and then the
\* starting count.  Identifiers that differ only in key are separate
\* entries: tracking one leaves the record of the other alone.
C5_BothDirectionsOneEntry ==
    [][\A a \in FlowArgs :
         /\ (/\ JustTracked(a)
             /\ last.state = "New"
             /\ clock - last.connection[1].data.timestamp <= timeout
             /\ Track(Swapped(a)))
            => /\ ReturnedOk
               /\ last'.connection[1].identifier = last.identifier[1]
               /\ ReturnedData.packet_counter = 2
               /\ Len(hashmap') = Len(hashmap)
               /\ Len(hashmap') = last.count_before
                                    + (IF last.removed = None THEN 1 ELSE 0)
         /\ \A b \in FlowArgs :
              (DifferInKeyOnly(a, b) /\ Present(b) /\ Track(a))
                 => /\ NewOf(a) # NewOf(b)
                    /\ ~Present(a) => last'.state = "New"
                    /\ Present(b)' => Get(hashmap', NewOf(b)) = Record(b)]_vars

\* the reverse direction of a flow tracked right after the call that
\* inserted it, while the same endpoints under the other key are tracked too
C5_Witness ==
    /\ Tracked("Ok")
    /\ last.state = "Ok"
    /\ last.prior # None
    /\ last.prior[1].state = "New"
    /\ last.prior[1].args = Swapped(last.args[1])
    /\ last.prior[1].args # last.args[1]
    /\ last.connection[1].data.packet_counter = 2
    /\ Len(hashmap) = 2

\* C5 as stated: after the two calls count() is the starting count plus one
\* and the second call returns packetCounter 2.
C5_CountGrowsByOne ==
    [][\A a \in FlowArgs :
         (/\ JustTracked(a)
          /\ last.state = "New"
          /\ clock - last.connection[1].data.timestamp <= timeout
          /\ Track(Swapped(a)))
         => /\ ReturnedOk
            /\ ReturnedData.packet_counter = 2
            /\ Len(hashmap') = last.count_before + 1]_vars

\* C6: Identifier::new(A,p,B,q,k) equals Identifier::new(B,q,A,p,k); its
\* lower endpoint is not greater than its greater endpoint under the order
\* of (address, port) tuples, the two endpoints are (A,p) and (B,q), and the
\* key is stored unchanged.
C6_Canonical ==
    ident.identifier # None =>
        LET a == ident.args[1]
            id == ident.identifier[1]
            lower == <<id.lower.address, id.lower.port>>
            greater == <<id.greater.address, id.greater.port>>
        IN /\ id = NewOf(Swapped(a))
           /\ ~TupleGreater(lower, greater)
           /\ \/ (lower = <<a[1], a[2]>> /\ greater = <<a[3], a[4]>>)
              \/ (lower = <<a[3], a[4]>> /\ greater = <<a[1], a[2]>>)
           /\ id.key = a[5]

\* an identifier built from a V6 source and a V4 destination: the
\* endpoints were swapped
C6_Witness ==
    /\ ident.identifier # None
    /\ ident.args[1][1] = V6(0)
    /\ ident.args[1][3] = V4(1)
    /\ ident.identifier[1].lower.address = V4(1)
    /\ ident.identifier[1].lower.port = ident.args[1][4]

\* C7: track(X) on a present X fails with Timeout exactly when
\* now - record.timestamp > timeout (an age equal to the timeout is still
\* refreshed); when it fails with Timeout, X's entry is gone after the call,
\* count() has dropped by one, and the other entries keep their records and
\* their order.
C7_LazyExpiry ==
    [][\A a \in TrackArgs :
         (Track(a) /\ Present(a))
         => /\ last'.op = "track"
            /\ (last'.result = "Timeout") <=> (Age(a) > timeout)
            /\ (Age(a) = timeout) => last'.result \in {"Ok", "PacketCounterOverflow"}
            /\ (last'.result = "Timeout")
                 => /\ ~ContainsKey(hashmap', NewOf(a))
                    /\ Len(hashmap') = Len(hashmap) - 1
                    /\ hashmap' = SelectSeq(hashmap,
                                     LAMBDA e : e.identifier # NewOf(a))]_vars

\* a track that failed with Timeout under a timeout of 1 and left the
\* other entry in the table
C7_Witness ==
    /\ Tracked("Timeout")
    /\ timeout = 1
    /\ last.count_before = 2
    /\ Len(hashmap) = 1

\* C8 (as amended): with timeout = 0, for an X absent from the table, a
\* track(X) followed by a second track(X) whose clock reading is later than
\* the record's timestamp makes the second call fail with Timeout, and
\* count() after it is one less than after the first call: its value before
\* the first call, or one less than that when the first call evicted an
\* entry on capacity.  When the clock reading has not advanced the age is
\* 0 <= timeout and the second call refreshes the entry instead.
C8_ZeroTimeout ==
    [][\A a \in TrackArgs :
         (/\ JustTracked(a)
          /\ last.state = "New"
          /\ timeout = 0
          /\ Track(a))
         => /\ clock > last.connection[1].data.timestamp
                 => /\ last'.result = "Timeout"
                    /\ Len(hashmap') = Len(hashmap) - 1
                    /\ Len(hashmap') = last.count_before
                                         - (IF last.removed = None THEN 0 ELSE 1)
            /\ clock = last.connection[1].data.timestamp
                 => /\ ReturnedOk
                    /\ ReturnedData.packet_counter = 2
                    /\ Len(hashmap') = Len(hashmap)]_vars

\* under timeout = 0, a track that failed with Timeout right after the
\* track that inserted the identifier, with count() back at its old value
C8_Witness ==
    /\ Tracked("Timeout")
    /\ timeout = 0
    /\ last.prior # None
    /\ last.prior[1].state = "New"
    /\ last.count_before = 2
    /\ Len(hashmap) = 1

\* C8 as stated: with timeout = 0 the second of two track(X) calls fails with
\* Timeout and count() is back at its value before the first call (read
\* with the second call at a later clock value than the first).
C8_SecondTrackTimesOut ==
    [][\A a \in TrackArgs :
         (/\ JustTracked(a)
          /\ last.state = "New"
          /\ timeout = 0
          /\ clock > last.connection[1].data.timestamp
          /\ Track(a))
         => /\ last'.result = "Timeout"
            /\ Len(hashmap') = last.count_before]_vars

\* C9: when X is present, within the timeout window, and its packetCounter
\* is at the maximum, track(X) fails with PacketCounterOverflow; the entry
\* stays with its counter and timestamp unchanged, only its position moves
\* to most-recently-used, count() is unchanged, and a further track(X)
\* within the window fails the same way with the counter still at the
\* maximum.
C9_OverflowKeepsRecord ==
    [][\A a \in TrackArgs :
         /\ (/\ Track(a)
             /\ WithinWindow(a)
             /\ Record(a).packet_counter = CounterMax)
            => /\ last'.op = "track"
               /\ last'.result = "PacketCounterOverflow"
               /\ ContainsKey(hashmap', NewOf(a))
               /\ Get(hashmap', NewOf(a)) = Record(a)
               /\ hashmap' = Append(SelectSeq(hashmap,
                                       LAMBDA e : e.identifier # NewOf(a)),
                                    [identifier |-> NewOf(a), data |-> Record(a)])
               /\ Len(hashmap') = Len(hashmap)
         /\ (/\ Tracked("PacketCounterOverflow")
             /\ last.args = Some(a)
             /\ Track(a)
             /\ WithinWindow(a))
            => /\ last'.result = "PacketCounterOverflow"
               /\ Get(hashmap', NewOf(a)).packet_counter = CounterMax]_vars

\* a track that failed with PacketCounterOverflow right after one that had
\* failed the same way, with another entry in the table
C9_Witness ==
    /\ Tracked("PacketCounterOverflow")
    /\ last.prior # None
    /\ last.prior[1].state = "Overflow"
    /\ Len(hashmap) = 2
    /\ hashmap[2].data.packet_counter = CounterMax

\* C10: track(X) for an X that is not in the table, whether it was never
\* tracked or was taken out by a timeout, an eviction, flush or remove,
\* succeeds and returns a record with packet_counter 1, no custom value and
\* the timestamp of the clock reading taken at the insertion; the table
\* holds that record for X, so nothing of an earlier record is carried over.
C10_FreshInsert ==
    [][\A a \in TrackArgs :
         (Track(a) /\ ~Present(a))
            => /\ ReturnedOk
               /\ last'.state = "New"
               /\ ReturnedData.packet_counter = 1
               /\ ReturnedData.custom = None
               /\ ReturnedData.timestamp = clock'
               /\ clock <= ReturnedData.timestamp
               /\ ContainsKey(hashmap', NewOf(a))
               /\ Get(hashmap', NewOf(a)) = ReturnedData]_vars

\* an insertion of an identifier whose earlier record the preceding track
\* had removed on timeout, stamped later than that record was
C10_Witness ==
    /\ Tracked("Ok")
    /\ last.state = "New"
    /\ last.prior # None
    /\ last.prior[1].state = "Timeout"
    /\ last.connection[1].data.packet_counter = 1
    /\ last.connection[1].data.timestamp > 0

\* C11: remove(X) on a present X deletes X's entry and nothing else, so
\* count() goes down by exactly one whatever the age and the counter of X;
\* on an absent X it changes nothing and reports no error.  After it X is
\* absent, so a second remove(X) changes nothing, and the other entries
\* keep their records and their order.
C11_RemoveExactlyOne ==
    [][\A a \in LruArgs :
         Remove(NewOf(a))
            => /\ last'.op = "remove"
               /\ last'.result = "none"
               /\ ~ContainsKey(hashmap', NewOf(a))
               /\ Present(a) => Len(hashmap') = Len(hashmap) - 1
               /\ ~Present(a) => hashmap' = hashmap
               /\ hashmap' = SelectSeq(hashmap,
                                LAMBDA e : e.identifier # NewOf(a))]_vars

\* a remove that took one entry out of three and left two with different
\* counters
C11_Witness ==
    /\ last.op = "remove"
    /\ last.count_before = 3
    /\ Len(hashmap) = 2
    /\ hashmap[1].data.packet_counter # hashmap[2].data.packet_counter

\* C12: flush removes and returns exactly the entries whose
\* now - record.timestamp > timeout, each once, and leaves every entry of
\* age <= timeout in the table with its record and its place among the
\* others; count() afterwards is the count before minus the number of
\* pairs returned.
C12_FlushExactlyExpired ==
    [][Flush =>
         LET returned == last'.removed
             stale == {hashmap[i] : i \in {j \in 1..Len(hashmap) :
                          clock - hashmap[j].data.timestamp > timeout}}
         IN /\ last'.op = "flush"
            /\ {returned[i] : i \in 1..Len(returned)} = stale
            /\ Len(returned) = Cardinality(stale)
            /\ hashmap' = SelectSeq(hashmap,
                             LAMBDA e : clock - e.data.timestamp <= timeout)
            /\ Len(hashmap') = Len(hashmap) - Len(returned)]_vars

\* a flush of three entries that returned one and kept two
C12_Witness ==
    /\ last.op = "flush"
    /\ last.count_before = 3
    /\ Len(last.removed) = 1
    /\ Len(hashmap) = 2

\* C13: while max_connections is 0 no track call evicts on capacity: a
\* track of an absent identifier adds one entry behind the entries that
\* were there, which all stay, so k such calls raise count() by k; a
\* track of a present identifier evicts nothing either.
C13_UnlimitedNeverEvicts ==
    [][\A a \in LruArgs :
         (max_connections = 0 /\ last'.args = Some(a) /\ Track(a))
            => /\ last'.removed = None
               /\ ~Present(a) =>
                     /\ ReturnedOk
                     /\ Len(hashmap') = Len(hashmap) + 1
                     /\ SubSeq(hashmap', 1, Len(hashmap)) = hashmap
                     /\ hashmap'[Len(hashmap')].identifier = NewOf(a)
               /\ \A i \in 1..Len(hashmap) :
                     hashmap[i].identifier # NewOf(a)
                        => \E j \in 1..Len(hashmap') : hashmap'[j] = hashmap[i]]_vars

\* the third of three insertions into the unlimited table
C13_Witness ==
    /\ Tracked("Ok")
    /\ last.state = "New"
    /\ max_connections = 0
    /\ last.count_before = 2
    /\ Len(hashmap) = 3

\* C14: an entry whose age exceeds the timeout stays in the table, with
\* its record, through every step except a track of its own identifier, a
\* flush, a remove of its identifier, and a track that inserts another
\* identifier into a full table and evicts it as the least recently used
\* entry; the clock, the assignments to the fields and the other tracks of
\* other identifiers leave it alone.
C14_StalePersists ==
    [][\A a \in TrackArgs :
         (Present(a) /\ Age(a) > timeout)
            => \/ /\ ContainsKey(hashmap', NewOf(a))
                  /\ Get(hashmap', NewOf(a)) = Record(a)
               \/ Track(a)
               \/ Flush
               \/ Remove(NewOf(a))
               \/ \E b \in TrackArgs :
                     /\ NewOf(b) # NewOf(a)
                     /\ Track(b)
                     /\ ~Present(b)
                     /\ max_connections > 0
                     /\ Len(hashmap) >= max_connections
                     /\ hashmap[1].identifier = NewOf(a)
                     /\ last'.removed = Some(NewOf(a))]_vars

\* a track of one identifier, at the present clock value, that left the
\* stale entry of another in the table
C14_Witness ==
    \E a \in TrackArgs :
        /\ Present(a)
        /\ Age(a) > timeout
        /\ Tracked("Ok")
        /\ last.identifier # Some(NewOf(a))
        /\ last.connection[1].data.timestamp = clock
        /\ Len(hashmap) = 2

\* C14 as first stated: a stale entry stays in the table until a track
\* targets its identifier or flush is called (a remove of the identifier
\* is let through as well); no track of another identifier removes it.
C14_OnlyTrackOrFlushRemoves ==
    [][\A a \in TrackArgs :
         (Present(a) /\ Age(a) > timeout)
            => \/ ContainsKey(hashmap', NewOf(a))
               \/ Track(a)
               \/ Flush
               \/ Remove(NewOf(a))]_vars

\* C15: when track(X) reads a clock value smaller than the timestamp
\* stored for X, it either fails with the Internal error or goes on as if
\* no time had passed (a refresh, which may end in PacketCounterOverflow);
\* it never reports Timeout and never aborts on the difference.
C15_BackwardClockGuarded ==
    [][\A a \in TrackArgs :
         (Track(a) /\ Present(a) /\ clock < Record(a).timestamp)
            => \/ last'.result = "Internal"
               \/ /\ last'.result = "Ok"
                  /\ ReturnedData.packet_counter = Record(a).packet_counter + 1
               \/ last'.result = "PacketCounterOverflow"]_vars

\* C16: track never writes the custom field of a record that is in the
\* table: an entry that is there before and after a track call, of its own
\* identifier or of another, keeps its custom value, and the view that a
\* successful track of a present identifier returns shows the value stored
\* before the call.
C16_CustomPreserved ==
    [][\A a \in TrackArgs :
         Track(a)
            => /\ \A b \in TrackArgs :
                     (Present(b) /\ ContainsKey(hashmap', NewOf(b)))
                        => Get(hashmap', NewOf(b)).custom = Record(b).custom
               /\ (Present(a) /\ ReturnedOk)
                     => ReturnedData.custom = Record(a).custom]_vars

\* a refresh that returned the custom value stored earlier, while the
\* other entry of the table holds none
C16_Witness ==
    /\ Tracked("Ok")
    /\ last.state = "Ok"
    /\ last.connection[1].data.custom = Some(1)
    /\ Len(hashmap) = 2
    /\ hashmap[1].data.custom = None

\* C17: a successful refreshing track(X) sets X's timestamp to the clock
\* value the call read, and no other step changes the timestamp of an
\* entry that stays; a track(X) made no later than timeout after that
\* timestamp does not fail with Timeout, however long ago X was inserted,
\* and one made later does: expiry depends on the time since the last
\* successful track of X only.
C17_SlidingWindow ==
    [][/\ \A a \in TrackArgs :
            (Track(a) /\ Present(a))
               => /\ last'.state = "Ok"
                       => /\ last'.now = clock
                          /\ Get(hashmap', NewOf(a)).timestamp = clock
                  /\ clock - Record(a).timestamp <= timeout
                       => last'.result # "Timeout"
                  /\ clock - Record(a).timestamp > timeout
                       => last'.result = "Timeout"
       /\ \A b \in TrackArgs :
            (/\ Present(b)
             /\ ContainsKey(hashmap', NewOf(b))
             /\ Get(hashmap', NewOf(b)).timestamp # Record(b).timestamp)
               => Track(b) /\ last'.state = "Ok"]_vars

\* the second refresh in a row of an entry, at the last clock value, under
\* a timeout shorter than the time the clock has run
C17_Witness ==
    /\ Tracked("Ok")
    /\ last.state = "Ok"
    /\ last.prior # None
    /\ last.prior[1].state = "Ok"
    /\ timeout = 1
    /\ clock = MaxClock
    /\ last.connection[1].data.timestamp = clock

\* C17 as first stated: a track(X) that follows the preceding track(X)
\* after a gap <= timeout never fails with Timeout.
C17_NoTimeoutWithinGaps ==
    [][\A a \in TrackArgs :
         (/\ Track(a)
          /\ Present(a)
          /\ last.op = "track"
          /\ last.identifier = Some(NewOf(a))
          /\ clock - last.now <= timeout)
            => last'.result # "Timeout"]_vars

\* C18: under a monotonic clock, whatever the caller assigns to
\* max_connections (0, or a value below count()) and to timeout, every
\* track call returns Ok, Timeout or PacketCounterOverflow: the unwrap of
\* what pop_front returns finds the evicted entry whenever the capacity
\* path is taken, and the unwrap of last_mut() finds the entry of a call
\* that returns Ok.
C18_TrackNeverAborts ==
    last.op = "track" =>
        /\ last.result \in {"Ok", "Timeout", "PacketCounterOverflow"}
        /\ last.result = "Ok" => last.connection # None
        /\ (/\ last.state = "New"
            /\ max_connections > 0
            /\ last.count_before >= max_connections) => last.removed # None

\* an insertion into a table whose limit had been lowered below count()
C18_Witness ==
    /\ Tracked("Ok")
    /\ last.state = "New"
    /\ last.removed # None
    /\ max_connections = 1
    /\ last.count_before = 2

\* C19: a track call changes count() by at most one: +1 when it inserts
\* an absent identifier without evicting, 0 when it refreshes a present
\* one, when it fails with PacketCounterOverflow and when it inserts after
\* evicting, -1 when it fails with Timeout.  A track of a present
\* identifier evicts nothing, and the capacity path is taken exactly when
\* an absent identifier meets a full table and evicts one entry, also when
\* count() exceeds max_connections by more than one.
C19_CountChangesByOne ==
    last.op = "track" =>
        LET change == Len(hashmap) - last.count_before
            full == max_connections > 0 /\ last.count_before >= max_connections
        IN /\ change \in {-1, 0, 1}
           /\ last.result = "Timeout" <=> change = -1
           /\ last.result = "PacketCounterOverflow" => change = 0
           /\ last.state = "Ok" => change = 0
           /\ last.state # "New" => last.removed = None
           /\ last.state = "New" => (last.removed # None <=> full)
           /\ (last.state = "New" /\ last.removed = None) => change = 1
           /\ (last.state = "New" /\ last.removed # None) => change = 0

\* an insertion into a table that held two entries more than the limit
\* allows, which evicted one of them
C19_Witness ==
    /\ Tracked("Ok")
    /\ last.state = "New"
    /\ last.removed # None
    /\ max_connections = 1
    /\ last.count_before = 3
    /\ Len(hashmap) = 3

\* the timestamps never go down from the least to the most recently used
Sorted(map) ==
    \A i \in 1..(Len(map) - 1) : map[i].data.timestamp <= map[i + 1].data.timestamp

\* C20: under a clock that never goes back, every step other than a track
\* that fails with PacketCounterOverflow keeps the timestamps of the table
\* non-decreasing from the least to the most recently used entry, so they
\* are in that order as long as no track has failed that way; the
\* entry a track evicts from such a table is one with the oldest
\* timestamp, so no entry staler than the evicted one is kept.
C20_RecencyAgreesWithAge ==
    [][(/\ Sorted(hashmap)
        /\ ~(last' # last /\ last'.result = "PacketCounterOverflow"))
          => /\ Sorted(hashmap')
             /\ (last' # last /\ last'.op = "track" /\ last'.removed # None)
                   => /\ last'.removed = Some(hashmap[1].identifier)
                      /\ \A i \in 1..Len(hashmap) :
                            hashmap[1].data.timestamp <= hashmap[i].data.timestamp
                      /\ \A j \in 1..Len(hashmap') :
                            hashmap[1].data.timestamp <= hashmap'[j].data.timestamp]_vars

\* an insertion that evicted the older of two entries and left two entries
\* with different timestamps
C20_Witness ==
    /\ Tracked("Ok")
    /\ last.state = "New"
    /\ last.removed # None
    /\ last.count_before = 2
    /\ Len(hashmap) = 2
    /\ hashmap[1].data.timestamp < hashmap[2].data.timestamp

====
